---- MODULE Spec2Model ----
(***************************************************************************)
(* Model of the zkillboard fetch pipeline:                                 *)
(*   ZKillboardClient.send_zkb_request_http  (transport, retry loops)      *)
(*   ZKillboardInterface.get_zkb_data        (cache coordinator)           *)
(* One get_zkb_data call is a sequence of steps: get_zkb_data performs the *)
(* call up to its first network request (or to its end when no request is  *)
(* made); every send_zkb_request_http step is one network round trip of    *)
(* the transport loop together with everything the code does until the     *)
(* next round trip or until get_zkb_data returns or raises; call_returns   *)
(* hands the outcome to the caller.  The cache directory outlives the      *)
(* interface object: ZKillboardInterface constructs a new one on it.       *)
(***************************************************************************)
EXTENDS Integers, Sequences, FiniteSets, TLC

(***************************************************************************)
(* Python values: None, int, str, list, dict (a dict is a function from    *)
(* its keys to values).                                                    *)
(***************************************************************************)
None == [t |-> "None"]
PyInt(n) == [t |-> "int", n |-> n]
PyStr(s) == [t |-> "str", s |-> s]
PyList(l) == [t |-> "list", l |-> l]
PyDict(d) == [t |-> "dict", d |-> d]
EmptyDict == [k \in {} |-> None]

\* key in dict
HasKey(dict, key) == key \in DOMAIN dict.d
\* dict.get(key, None)
DictGet(dict, key) == IF key \in DOMAIN dict.d THEN dict.d[key] ELSE None

(***************************************************************************)
(* json.dumps / json.loads on the values above.  The text is a sequence    *)
(* of tokens; members of an object are written in KeyOrder.                *)
(***************************************************************************)
Tok(k) == [k |-> k]
NumTok(n) == [k |-> "num", n |-> n]
StrTok(s) == [k |-> "str", s |-> s]
KeyOrder == <<"headers", "json", "date", "expires", "last-modified", "Http-Error">>

RECURSIVE json_dumps(_), dumps_items(_), dumps_members(_, _)
dumps_items(l) ==
    IF l = <<>> THEN <<>> ELSE json_dumps(Head(l)) \o dumps_items(Tail(l))
dumps_members(d, i) ==
    IF i > Len(KeyOrder) THEN <<>>
    ELSE (IF KeyOrder[i] \in DOMAIN d
          THEN <<StrTok(KeyOrder[i])>> \o json_dumps(d[KeyOrder[i]])
          ELSE <<>>) \o dumps_members(d, i + 1)
json_dumps(v) ==
    CASE v.t = "None" -> <<Tok("null")>>
      [] v.t = "int"  -> <<NumTok(v.n)>>
      [] v.t = "str"  -> <<StrTok(v.s)>>
      [] v.t = "list" -> <<Tok("[")>> \o dumps_items(v.l) \o <<Tok("]")>>
      [] v.t = "dict" -> <<Tok("{")>> \o dumps_members(v.d, 1) \o <<Tok("}")>>

\* the parsers return [v |-> the value read, r |-> the tokens left]
RECURSIVE parse_value(_), parse_items(_, _), parse_members(_, _)
parse_items(s, acc) ==
    IF Head(s).k = "]" THEN [v |-> PyList(acc), r |-> Tail(s)]
    ELSE LET e == parse_value(s) IN parse_items(e.r, Append(acc, e.v))
parse_members(s, acc) ==
    IF Head(s).k = "}" THEN [v |-> PyDict(acc), r |-> Tail(s)]
    ELSE LET e == parse_value(Tail(s))
         IN parse_members(e.r, (Head(s).s :> e.v) @@ acc)
parse_value(s) ==
    CASE Head(s).k = "null" -> [v |-> None, r |-> Tail(s)]
      [] Head(s).k = "num"  -> [v |-> PyInt(Head(s).n), r |-> Tail(s)]
      [] Head(s).k = "str"  -> [v |-> PyStr(Head(s).s), r |-> Tail(s)]
      [] Head(s).k = "["    -> parse_items(Tail(s), <<>>)
      [] Head(s).k = "{"    -> parse_members(Tail(s), EmptyDict)
json_loads(s) == parse_value(s).v

(***************************************************************************)
(* dateutil.parser.parse on the HTTP dates of the model: the text of a     *)
(* date is mapped to the instant it denotes.                               *)
(***************************************************************************)
HttpDates == {"Mon, 01 Jan", "Tue, 02 Jan"}
parsedate(s) == IF s = "Mon, 01 Jan" THEN 1 ELSE 2
PyDate(n) == [t |-> "datetime", n |-> n]

(***************************************************************************)
(* Cache files.  A raw url is a sequence of characters.                    *)
(***************************************************************************)
str_replace(s, old, new) == [i \in 1..Len(s) |-> IF s[i] = old THEN new ELSE s[i]]
str_remove(s, old) == SelectSeq(s, LAMBDA c : c # old)

\* mutant: a trailing slash is kept
get_f_name_keep_slash(url) ==
    LET u1 == str_replace(url, "/", "_")
        u2 == str_replace(u1, "=", "-")
        u3 == str_remove(u2, "?")
        u4 == str_replace(u3, "&", ".")
    IN  <<".cache_">> \o u4 \o <<".json">>

get_f_name(url) ==
    LET u0 == IF Len(url) > 0 /\ url[Len(url)] = "/"
              THEN SubSeq(url, 1, Len(url) - 1) ELSE url
        u1 == str_replace(u0, "/", "_")
        u2 == str_replace(u1, "=", "-")
        u3 == str_remove(u2, "?")
        u4 == str_replace(u3, "&", ".")
    IN  <<".cache_">> \o u4 \o <<".json">>

\* files: the cache directory, a function from the names of the files that
\* exist to their text

\* mutant: the payload is stored as a list of pages
dump_cache_into_file_pages(files, url, data_headers, data_json) ==
    LET f_name == get_f_name(url)
        cache == PyDict(("headers" :> data_headers) @@ ("json" :> PyList(<<data_json>>)))
        s == json_dumps(cache)
    IN  (f_name :> s) @@ files

\* mutant: the headers are merged into those of the stored document
dump_cache_into_file_merge(files, url, data_headers, data_json) ==
    LET f_name == get_f_name(url)
        old == IF f_name \in DOMAIN files THEN json_loads(files[f_name]).d["headers"].d
               ELSE EmptyDict
        cache == PyDict(("headers" :> PyDict(data_headers.d @@ old)) @@ ("json" :> data_json))
        s == json_dumps(cache)
    IN  (f_name :> s) @@ files

dump_cache_into_file(files, url, data_headers, data_json) ==
    LET f_name == get_f_name(url)
        cache == PyDict(("headers" :> data_headers) @@ ("json" :> data_json))
        s == json_dumps(cache)
    IN  (f_name :> s) @@ files

take_cache_from_file(files, url) ==
    LET f_name == get_f_name(url)
    IN  IF f_name \in DOMAIN files THEN json_loads(files[f_name]) ELSE None

(***************************************************************************)
(* The origin.  A network round trip ends with a response or fails with a  *)
(* ConnectionError (no connection) or a Timeout (no answer in time).  The  *)
(* body of a response is a JSON value or text that is no JSON (NotJson).   *)
(***************************************************************************)
NotJson == [t |-> "NotJson"]
NoHeaders == [k \in {} |-> ""]
Hdr1 == ("Content-Type" :> "json") @@ ("Date" :> "d1") @@ ("Last-Modified" :> "Mon, 01 Jan")
Hdr2 == ("Date" :> "d2") @@ ("Expires" :> "e2") @@ ("Last-Modified" :> "Tue, 02 Jan")
ErrorJson == PyDict("error" :> PyStr("e"))

Response(code, hdrs, b) ==
    [kind |-> "response", status_code |-> code, headers |-> hdrs, body |-> b]
ConnectionError == [kind |-> "ConnectionError"]
Timeout == [kind |-> "Timeout"]
NoEvent == [kind |-> "none"]

OkResponses ==
    {Response(200, NoHeaders, None), Response(200, Hdr1, PyList(<<PyInt(7)>>)),
     Response(200, Hdr2, PyList(<<>>)), Response(200, NoHeaders, NotJson),
     Response(200, Hdr1, None)}
NotModifiedResponses == {Response(304, h, None) : h \in {NoHeaders, Hdr2}}
ErrorResponses ==
    {Response(c, NoHeaders, b) : c \in {403, 404, 500, 502, 503, 504, 520},
                                 b \in {ErrorJson, NotJson}}
Events == OkResponses \cup NotModifiedResponses \cup ErrorResponses
              \cup {ConnectionError, Timeout}

\* the exceptions of the model
HTTPError(code, msg) == [exc |-> "HTTPError", status_code |-> code, message |-> msg]
Error(name) == [exc |-> name]

\* what a get_zkb_data call ended with
Return(v) == [kind |-> "return", value |-> v]
Raise(e) == [kind |-> "raise", err |-> e]
Running == [kind |-> "running"]

Urls == {<<"k", "/", "7", "/">>, <<"k", "/", "7">>, <<"w", "?", "i", "=", "3">>,
         <<"w", "i", "-", "3">>}
Bodies == {None, PyStr("post")}
FNames == {get_f_name(u) : u \in Urls}

\* the bound of the GET loop on requests_get_times, which the code leaves
\* unbounded; it lets a GET fail more often than attempts_to_reconnect + 1 times
MaxGetTimes == 8

VARIABLES
    \* ZKillboardInterface
    offline_mode, is_last_data_updated, last_modified, files,
    \* ZKillboardClient
    logger, client_last_modified,
    \* the get_zkb_data call in progress, or the last one
    pc, url, body, fully_trust_cache, cached_data, ret,
    \* the locals of send_zkb_request_http in that call
    headers, http_connection_times, requests_get_times,
    proxy_error_times, throttle_error_times, res, sleeps,
    \* history of the call: the last network event, the number of
    \* send_zkb_request_http invocations, how send_zkb_request_http ended,
    \* the cache directory on entry, whether the file of the call was in
    \* raised404 on entry, the events of the round trips of the call in order
    ev, transport_calls, sent, files0, was404, trace,
    \* history of the cache: the files for which an online call raised
    \* HTTPError(404) with no 2xx fetch since, and per file the outcome of the
    \* call that wrote it last
    raised404, written

ifaceVars == <<offline_mode, is_last_data_updated, last_modified, files>>
clientVars == <<logger, client_last_modified>>
callVars == <<pc, url, body, fully_trust_cache, cached_data, ret>>
transVars == <<headers, http_connection_times, requests_get_times,
               proxy_error_times, throttle_error_times, res, sleeps>>
histVars == <<ev, transport_calls, sent, files0, was404, trace, raised404, written>>
vars == <<ifaceVars, clientVars, callVars, transVars, histVars>>

attempts_to_reconnect == 5

\* how send_zkb_request_http ended: not at all, Returned, or Raised(err)
NotSent == [ctl |-> "none", err |-> None]
Returned == [ctl |-> "return", err |-> None]
Raised(e) == [ctl |-> "raise", err |-> e]

Init ==
    /\ offline_mode \in BOOLEAN
    /\ is_last_data_updated = FALSE
    /\ last_modified = None
    /\ files = [f \in {} |-> <<>>]
    /\ logger \in BOOLEAN
    /\ client_last_modified = None
    /\ pc = "idle"
    /\ url = <<>>
    /\ body = None
    /\ fully_trust_cache = FALSE
    /\ cached_data = None
    /\ ret = Running
    /\ headers = NoHeaders
    /\ http_connection_times = 0
    /\ requests_get_times = 0
    /\ proxy_error_times = 0
    /\ throttle_error_times = 0
    /\ res = None
    /\ sleeps = <<>>
    /\ ev = NoEvent
    /\ transport_calls = 0
    /\ sent = NotSent
    /\ files0 = files
    /\ was404 = FALSE
    /\ trace = <<>>
    /\ raised404 = {}
    /\ written = [f \in {} |-> Running]

(***************************************************************************)
(* ZKillboardClient.send_zkb_request_http                                  *)
(***************************************************************************)
\* mutant: the header is set for requests with a body too
request_headers_any_body(lm, b) ==
    IF lm # None THEN ("If-Modified-Since" :> lm.s) ELSE NoHeaders

\* the request headers built on entry
request_headers(lm, b) ==
    IF lm # None /\ b = None THEN ("If-Modified-Since" :> lm.s) ELSE NoHeaders

\* requests.Response.raise_for_status raises HTTPError for 4xx and 5xx
raises_for_status(code) == 400 <= code /\ code < 600

\* What the code does with a received response r, with the counters proxy and
\* throttle: retry (ctl = "continue"), return r, or raise err.  res.json()
\* of a body that is no JSON raises JSONDecodeError.
status_policy(r, proxy, throttle) ==
    LET out(c, e, p, t, s) ==
            [ctl |-> c, err |-> e, proxy |-> p, throttle |-> t, sleep |-> s]
    IN  IF r.status_code \in {502, 504} /\ proxy < attempts_to_reconnect
        THEN out("continue", None, proxy + 1, throttle, <<>>)
        ELSE IF r.status_code \in {503} /\ proxy < attempts_to_reconnect
        THEN IF r.body = NotJson
             THEN out("raise", Error("JSONDecodeError"), proxy, throttle, <<>>)
             ELSE out("continue", None, proxy + 1, throttle, <<2 * (proxy + 1)>>)
        ELSE IF r.status_code \in {520} /\ throttle < attempts_to_reconnect
        THEN IF r.body = NotJson
             THEN out("raise", Error("JSONDecodeError"), proxy, throttle, <<>>)
             ELSE out("continue", None, proxy, throttle + 1, <<5>>)
        ELSE IF raises_for_status(r.status_code)
        THEN IF r.body = NotJson
             THEN out("raise", Error("JSONDecodeError"), proxy, throttle, <<>>)
             ELSE out("raise", HTTPError(r.status_code, "origin"), proxy, throttle, <<>>)
        ELSE out("return", None, proxy, throttle, <<>>)

\* the logger block: the client's last_modified after response r
logged_last_modified(r, enabled, old) ==
    IF enabled /\ "Last-Modified" \in DOMAIN r.headers
    THEN PyDate(parsedate(r.headers["Last-Modified"]))
    ELSE old

\* One round trip that ends with the event e, and the code up to the next
\* round trip or to the end of send_zkb_request_http.
request_round(e) ==
    LET out(c, x, hc, gt, p, t, s, clm, r, h) ==
            [ctl |-> c, err |-> x, conn |-> hc, gets |-> gt, proxy |-> p,
             throttle |-> t, sleep |-> s, clm |-> clm, res |-> r, hdrs |-> h]
        answered(gt, h) ==
            LET sp == status_policy(e, proxy_error_times, throttle_error_times)
            IN  out(sp.ctl, sp.err, http_connection_times, gt, sp.proxy, sp.throttle,
                    sp.sleep, logged_last_modified(e, logger, client_last_modified), e, h)
    IN  IF body = None
        THEN IF e.kind \in {"ConnectionError", "Timeout"}
             THEN out("continue", None, http_connection_times, requests_get_times + 1,
                      proxy_error_times, throttle_error_times, <<>>,
                      client_last_modified, res, headers)
             ELSE answered(requests_get_times + 1, headers)
        ELSE LET h == ("Content-Type" :> "application/json") @@ headers
             IN  IF e.kind = "ConnectionError"
                 THEN IF http_connection_times < attempts_to_reconnect
                      THEN out("continue", None, http_connection_times + 1,
                               requests_get_times, 0, 0, <<1>>,
                               client_last_modified, res, h)
                      ELSE out("raise", Error("ConnectionError"), http_connection_times,
                               requests_get_times, proxy_error_times,
                               throttle_error_times, <<>>, client_last_modified, res, h)
                 ELSE answered(requests_get_times, h)

(***************************************************************************)
(* ZKillboardInterface.get_zkb_data                                        *)
(***************************************************************************)
get_cached_headers(data) ==
    LET pick(from, to) == IF from \in DOMAIN data.headers
                          THEN (to :> PyStr(data.headers[from])) ELSE EmptyDict
    IN  PyDict(pick("Date", "date") @@ pick("Expires", "expires")
                   @@ pick("Last-Modified", "last-modified"))

esi_raise_for_status(code, message) == Raise(HTTPError(code, message))

\* the end of a call: the cache directory, the two attributes and the outcome
\* (dumped: __dump_cache_into_file was called)
End(f, upd, lm, r) ==
    [files |-> f, dumped |-> FALSE, updated |-> upd, last_modified |-> lm, ret |-> r]
Dumped(f, upd, lm, r) ==
    [files |-> f, dumped |-> TRUE, updated |-> upd, last_modified |-> lm, ret |-> r]

\* the stored last-modified of a cached document, parsed, or the value kept
cached_last_modified(cached, keep) ==
    LET url_time == DictGet(cached.d["headers"], "last-modified")
    IN  IF url_time # None THEN PyDate(parsedate(url_time.s)) ELSE keep

\* mutant: a 304 reports the client's last_modified
on_response_client_time(data, f, u, cached, clm) ==
    IF data.status_code = 304
    THEN IF cached = None
         THEN End(f, FALSE, None, Raise(Error("TypeError")))
         ELSE End(f, FALSE, clm, Return(DictGet(cached, "json")))
    ELSE IF data.body = NotJson
         THEN End(f, FALSE, None, Raise(Error("JSONDecodeError")))
         ELSE Dumped(dump_cache_into_file(f, u, get_cached_headers(data), data.body),
                     TRUE, clm, Return(data.body))

\* the try block after send_zkb_request_http returned data; clm is the
\* client's last_modified
on_response(data, f, u, cached, clm) ==
    IF data.status_code = 304
    THEN IF cached = None
         THEN End(f, FALSE, None, Raise(Error("TypeError")))
         ELSE End(f, FALSE, cached_last_modified(cached, None),
                  Return(DictGet(cached, "json")))
    ELSE IF data.body = NotJson
         THEN End(f, FALSE, None, Raise(Error("JSONDecodeError")))
         ELSE Dumped(dump_cache_into_file(f, u, get_cached_headers(data), data.body),
                     TRUE, clm, Return(data.body))

\* mutant: every HTTPError is stored as a sticky error
on_error_sticky_any(err, f, u) ==
    IF err.exc = "HTTPError"
    THEN Dumped(dump_cache_into_file(f, u, PyDict("Http-Error" :> PyInt(err.status_code)),
                                     None),
                FALSE, None, Raise(err))
    ELSE End(f, FALSE, None, Raise(err))

\* mutant: the 404 clause is missing
on_error_no_404(err, f, u) ==
    IF err.exc = "HTTPError"
    THEN IF err.status_code = 403
         THEN Dumped(dump_cache_into_file(f, u, PyDict("Http-Error" :> PyInt(403)), None),
                     FALSE, None, Raise(err))
         ELSE End(f, FALSE, None, Return(None))
    ELSE End(f, FALSE, None, Raise(err))

\* the except clauses, for the exception err raised by send_zkb_request_http
on_error(err, f, u) ==
    IF err.exc = "HTTPError"
    THEN IF err.status_code = 403
         THEN Dumped(dump_cache_into_file(f, u, PyDict("Http-Error" :> PyInt(403)), None),
                     FALSE, None, Raise(err))
         ELSE IF err.status_code = 404
         THEN Dumped(dump_cache_into_file(f, u, PyDict("Http-Error" :> PyInt(404)), None),
                     FALSE, None, Raise(err))
         ELSE End(f, FALSE, None, Return(None))
    ELSE End(f, FALSE, None, Raise(err))

\* mutant: a stored error is trusted like a payload
trusts_cache_sticky(offline, trust, cached) ==
    ~offline /\ trust /\ cached # None /\ HasKey(cached, "json")

\* mutant: the cache is trusted only with a stored last-modified
trusts_cache_timed(offline, trust, cached) ==
    /\ ~offline /\ trust /\ cached # None /\ HasKey(cached, "json")
    /\ ~HasKey(cached.d["headers"], "Http-Error")
    /\ HasKey(cached.d["headers"], "last-modified")

\* the trust-cache test of the call
trusts_cache(offline, trust, cached) ==
    /\ ~offline /\ trust /\ cached # None /\ HasKey(cached, "json")
    /\ ~HasKey(cached.d["headers"], "Http-Error")

\* mutant: the offline branch does not look for a stored error
offline_result_no_error(cached, u) ==
    IF cached = None THEN Return(None) ELSE Return(DictGet(cached, "json"))

\* the offline branch
offline_result(cached, u) ==
    IF cached = None THEN Return(None)
    ELSE IF HasKey(cached.d["headers"], "Http-Error")
         THEN esi_raise_for_status(cached.d["headers"].d["Http-Error"].n, "Offline-cache")
         ELSE Return(DictGet(cached, "json"))

\* mutant: offline, a cache miss goes to the network
branch_offline_miss(offline, trust, cached) ==
    IF trusts_cache(offline, trust, cached) THEN "trusted"
    ELSE IF offline /\ cached # None THEN "offline" ELSE "online"

\* mutant: with the trust flag every stored document is returned
branch_trust_any(offline, trust, cached) ==
    IF ~offline /\ trust /\ cached # None THEN "trusted"
    ELSE IF offline THEN "offline" ELSE "online"

\* the branch of the call: the trust-cache return, the offline branch or the
\* online branch
branch(offline, trust, cached) ==
    IF trusts_cache(offline, trust, cached) THEN "trusted"
    ELSE IF offline THEN "offline" ELSE "online"

\* the timestamp handed to send_zkb_request_http
conditional_timestamp(cached) ==
    IF cached # None /\ HasKey(cached, "headers") /\ cached.d["headers"].t = "dict"
    THEN DictGet(cached.d["headers"], "last-modified")
    ELSE None

(***************************************************************************)
(* Actions                                                                 *)
(***************************************************************************)
\* the locals of a call that is not running
NoCall ==
    /\ url' = <<>>
    /\ body' = None
    /\ fully_trust_cache' = FALSE
    /\ cached_data' = None
    /\ ret' = Running
    /\ headers' = NoHeaders
    /\ http_connection_times' = 0
    /\ requests_get_times' = 0
    /\ proxy_error_times' = 0
    /\ throttle_error_times' = 0
    /\ res' = None
    /\ sleeps' = <<>>
    /\ ev' = NoEvent
    /\ transport_calls' = 0
    /\ sent' = NotSent
    /\ files0' = files
    /\ was404' = FALSE
    /\ trace' = <<>>

\* ZKillboardClient.__init__ and ZKillboardInterface.__init__ on the same
\* cache directory: the program is started again
ZKillboardInterface(offline, log) ==
    /\ pc = "idle"
    /\ offline_mode' = offline
    /\ is_last_data_updated' = FALSE
    /\ last_modified' = None
    /\ logger' = log
    /\ client_last_modified' = None
    /\ UNCHANGED <<files, callVars, transVars, histVars>>

\* entry of get_zkb_data(u, b, trust): the cache is read, the attributes reset
Enter(u, b, trust) ==
    /\ pc = "idle"
    /\ url' = u
    /\ body' = b
    /\ fully_trust_cache' = trust
    /\ cached_data' = take_cache_from_file(files, u)
    /\ is_last_data_updated' = FALSE
    /\ UNCHANGED <<http_connection_times, requests_get_times, proxy_error_times,
                   throttle_error_times, res, sleeps, ev, sent, trace>>
    /\ files0' = files
    /\ was404' = (get_f_name(u) \in raised404)
    /\ UNCHANGED <<offline_mode, files, logger, raised404, written>>

\* the call ends in the trust-cache branch
get_zkb_data_trusted(u, b, trust) ==
    /\ Enter(u, b, trust)
    /\ branch(offline_mode, trust, cached_data') = "trusted"
    /\ last_modified' = cached_last_modified(cached_data', None)
    /\ ret' = Return(DictGet(cached_data', "json"))
    /\ pc' = "done"
    /\ transport_calls' = 0
    /\ UNCHANGED <<headers, client_last_modified>>

\* the call ends in the offline branch
get_zkb_data_offline(u, b, trust) ==
    /\ Enter(u, b, trust)
    /\ branch(offline_mode, trust, cached_data') = "offline"
    /\ last_modified' = None
    /\ ret' = offline_result(cached_data', u)
    /\ pc' = "done"
    /\ transport_calls' = 0
    /\ UNCHANGED <<headers, client_last_modified>>

\* the call reaches send_zkb_request_http, whose locals are initialised
get_zkb_data_online(u, b, trust) ==
    /\ Enter(u, b, trust)
    /\ branch(offline_mode, trust, cached_data') = "online"
    /\ last_modified' = None
    /\ ret' = Running
    /\ pc' = "request"
    /\ transport_calls' = 1
    /\ headers' = request_headers(conditional_timestamp(cached_data'), b)
    /\ client_last_modified' = None

get_zkb_data(u, b, trust) ==
    \/ get_zkb_data_trusted(u, b, trust)
    \/ get_zkb_data_offline(u, b, trust)
    \/ get_zkb_data_online(u, b, trust)

\* the events the origin can answer a request of the call with
Possible(e) ==
    /\ pc = "request"
    /\ body # None => e.kind # "Timeout"
    /\ (body = None /\ e.kind # "response") => requests_get_times + 1 < MaxGetTimes

\* the transport locals after a round
Round(e, r) ==
    /\ Possible(e)
    /\ ev' = e
    /\ trace' = Append(trace, e)
    /\ headers' = r.hdrs
    /\ http_connection_times' = r.conn
    /\ requests_get_times' = r.gets
    /\ proxy_error_times' = r.proxy
    /\ throttle_error_times' = r.throttle
    /\ res' = r.res
    /\ sleeps' = sleeps \o r.sleep
    /\ client_last_modified' = r.clm
    /\ sent' = IF r.ctl = "continue" THEN NotSent
               ELSE IF r.ctl = "return" THEN Returned ELSE Raised(r.err)
    /\ UNCHANGED <<offline_mode, logger, url, body, fully_trust_cache, cached_data,
                   transport_calls, files0, was404>>

\* a round after which send_zkb_request_http makes another request
send_zkb_request_http_retry(e) ==
    LET r == request_round(e)
    IN  /\ Round(e, r)
        /\ r.ctl = "continue"
        /\ UNCHANGED <<pc, ret, files, is_last_data_updated, last_modified,
                       raised404, written>>

\* the history after a call on file f_name that ended with end
raised404_after(end, f_name) ==
    IF end.ret = Raise(HTTPError(404, "origin")) THEN raised404 \cup {f_name}
    ELSE IF end.updated THEN raised404 \ {f_name}
    ELSE raised404

written_after(end, f_name) ==
    IF end.dumped THEN (f_name :> end.ret) @@ written ELSE written

\* the last round: send_zkb_request_http returns or raises and get_zkb_data
\* runs to its end
send_zkb_request_http_end(e) ==
    LET r == request_round(e)
        end == IF r.ctl = "return"
               THEN on_response(e, files, url, cached_data, r.clm)
               ELSE on_error(r.err, files, url)
    IN  /\ Round(e, r)
        /\ r.ctl # "continue"
        /\ pc' = "done"
        /\ files' = end.files
        /\ is_last_data_updated' = end.updated
        /\ last_modified' = end.last_modified
        /\ ret' = end.ret
        /\ raised404' = raised404_after(end, get_f_name(url))
        /\ written' = written_after(end, get_f_name(url))

\* the outcome is with the caller: the locals of the call are gone
call_returns ==
    /\ pc = "done"
    /\ pc' = "idle"
    /\ NoCall
    /\ UNCHANGED <<ifaceVars, clientVars, raised404, written>>

\* within one call the origin repeats the answer it gave first
SteadyOrigin(e) == ev # NoEvent => e = ev

Next ==
    \/ \E offline \in BOOLEAN, log \in BOOLEAN : ZKillboardInterface(offline, log)
    \/ \E u \in Urls, b \in Bodies, trust \in BOOLEAN : get_zkb_data(u, b, trust)
    \/ \E e \in Events : SteadyOrigin(e) /\ send_zkb_request_http_retry(e)
    \/ \E e \in Events : SteadyOrigin(e) /\ send_zkb_request_http_end(e)
    \/ call_returns

Spec == Init /\ [][Next]_vars

(***************************************************************************)
(* The transport under an origin that changes its answer within a call:    *)
(* one url, error responses with JSON bodies, and at most MaxChanges       *)
(* changes of the answer from one round trip to the next.                  *)
(***************************************************************************)
MaxChanges == 2

TransportUrls == {<<"k", "/", "7">>}
TransportEvents ==
    {Response(c, NoHeaders, ErrorJson) : c \in {404, 502, 503, 504, 520}}
        \cup {Response(200, Hdr1, PyList(<<PyInt(7)>>)), ConnectionError}

\* the number of changes of the answer in the round trips t
Changes(t) == Cardinality({i \in 1..(Len(t) - 1) : t[i] # t[i + 1]})

ChangingOrigin(e) == e \in TransportEvents /\ Changes(Append(trace, e)) <= MaxChanges

TransportNext ==
    \/ \E offline \in BOOLEAN, log \in BOOLEAN : ZKillboardInterface(offline, log)
    \/ \E u \in TransportUrls, b \in Bodies, trust \in BOOLEAN : get_zkb_data(u, b, trust)
    \/ \E e \in Events : ChangingOrigin(e) /\ send_zkb_request_http_retry(e)
    \/ \E e \in Events : ChangingOrigin(e) /\ send_zkb_request_http_end(e)
    \/ call_returns

TransportSpec == Init /\ [][TransportNext]_vars

(***************************************************************************)
(* Properties                                                              *)
(***************************************************************************)
\* the file of the call and the document stored in file name of directory f
CallFile == get_f_name(url)
Doc(f, name) == json_loads(f[name])
StickyDoc(code) ==
    PyDict(("headers" :> PyDict("Http-Error" :> PyInt(code))) @@ ("json" :> None))
IsSticky(doc) == HasKey(doc.d["headers"], "Http-Error")
\* send_zkb_request_http raised HTTPError(403) or HTTPError(404)
Denied == sent.ctl = "raise" /\ sent.err \in {HTTPError(403, "origin"), HTTPError(404, "origin")}
\* the files other than the file of the call are as they were on entry
OthersUnchanged ==
    /\ DOMAIN files \ {CallFile} = DOMAIN files0 \ {CallFile}
    /\ \A f \in DOMAIN files \ {CallFile} : files[f] = files0[f]

\* C1: when send_zkb_request_http raises an HTTPError whose status is neither
\* 403 nor 404, the online get_zkb_data call raises that same error; it does
\* not return normally.
C1_OtherHttpErrorIsRaised ==
    (pc = "done" /\ sent.ctl = "raise" /\ sent.err.exc = "HTTPError"
        /\ sent.err.status_code \notin {403, 404})
    => ret = Raise(sent.err)

\* C2: an online call in which send_zkb_request_http raises anything but
\* HTTPError(403) or HTTPError(404) ends with every cache file, that of the
\* call included, as it was on entry.
C2_OtherErrorKeepsCache ==
    (pc = "done" /\ sent.ctl = "raise" /\ ~Denied) => files = files0

C2_Witness ==
    /\ pc = "done"
    /\ sent = Raised(HTTPError(503, "origin"))
    /\ proxy_error_times = attempts_to_reconnect
    /\ DOMAIN files0 = FNames
    /\ ~IsSticky(Doc(files0, CallFile))

\* C3: when send_zkb_request_http raises HTTPError(403) or HTTPError(404), the
\* file of the call holds afterwards the sticky-error document of that status
\* (no payload, no last-modified, nothing else), the other files are as they
\* were, and the call raises that same error.
C3_DenialIsStoredAndRaised ==
    (pc = "done" /\ Denied)
    => /\ CallFile \in DOMAIN files
       /\ Doc(files, CallFile) = StickyDoc(sent.err.status_code)
       /\ DictGet(Doc(files, CallFile).d["headers"], "last-modified") = None
       /\ OthersUnchanged
       /\ ret = Raise(sent.err)

C3_Witness ==
    /\ pc = "done"
    /\ sent = Raised(HTTPError(404, "origin"))
    /\ CallFile \in DOMAIN files0
    /\ Doc(files0, CallFile).d["json"] # None
    /\ HasKey(Doc(files0, CallFile).d["headers"], "last-modified")

\* C4: in offline mode no call invokes send_zkb_request_http: no request is
\* pending or was made, whatever the url, body, trust flag and cache.
C4_OfflineNeverSends ==
    offline_mode => (pc # "request" /\ transport_calls = 0 /\ sent = NotSent /\ ev = NoEvent)

C4_Witness ==
    /\ pc = "done"
    /\ offline_mode
    /\ fully_trust_cache
    /\ body # None
    /\ CallFile \notin DOMAIN files
    /\ DOMAIN files # {}

\* C5: an offline call returns None when the file of the call does not exist,
\* raises an HTTPError with the stored status code (the one the online call
\* that wrote the file raised) when the document holds a sticky error, and
\* returns the stored payload otherwise.
C5_OfflineReplay ==
    (pc = "done" /\ offline_mode)
    => IF CallFile \notin DOMAIN files THEN ret = Return(None)
       ELSE LET doc == Doc(files, CallFile)
            IN  IF IsSticky(doc)
                THEN /\ ret.kind = "raise"
                     /\ ret.err.exc = "HTTPError"
                     /\ PyInt(ret.err.status_code) = doc.d["headers"].d["Http-Error"]
                     /\ written[CallFile].kind = "raise"
                     /\ ret.err.status_code = written[CallFile].err.status_code
                ELSE ret = Return(doc.d["json"])

C5_Witness ==
    /\ pc = "done"
    /\ offline_mode
    /\ CallFile \in DOMAIN files
    /\ Doc(files, CallFile) = StickyDoc(403)
    /\ ret.kind = "raise"

\* C6 as claimed: after an online call for a file raised HTTPError(404), with
\* no 2xx fetch of the file since (the call itself is no 2xx fetch either), an
\* online call for it raises HTTPError(404).
C6_Online404IsReplayed ==
    (pc = "done" /\ ~offline_mode /\ was404 /\ ~is_last_data_updated)
    => ret = Raise(HTTPError(404, "origin"))

\* C6 as amended: such an online call sends an unconditional request and
\* raises HTTPError(404) exactly when send_zkb_request_http raises it again.
C6_Online404IsRefetched ==
    (pc # "idle" /\ ~offline_mode /\ was404)
    => /\ transport_calls = 1
       /\ "If-Modified-Since" \notin DOMAIN headers
       /\ pc = "done" =>
            (ret = Raise(HTTPError(404, "origin")) <=> sent = Raised(HTTPError(404, "origin")))

C6_Witness ==
    /\ pc = "done"
    /\ ~offline_mode
    /\ was404
    /\ fully_trust_cache
    /\ files0[CallFile] = json_dumps(StickyDoc(404))
    /\ ret = Raise(HTTPError(404, "origin"))

\* C7: an online call with the trust flag, for a file whose document holds no
\* sticky error, returns the stored payload (None when a JSON null was
\* stored), invokes send_zkb_request_http zero times and leaves every cache
\* file as it was.
C7_TrustCacheBypass ==
    (pc = "done" /\ ~offline_mode /\ fully_trust_cache /\ CallFile \in DOMAIN files0
        /\ ~IsSticky(Doc(files0, CallFile)))
    => /\ ret = Return(Doc(files0, CallFile).d["json"])
       /\ transport_calls = 0
       /\ sent = NotSent
       /\ files = files0

C7_Witness ==
    /\ pc = "done"
    /\ ~offline_mode
    /\ fully_trust_cache
    /\ CallFile \in DOMAIN files0
    /\ Doc(files0, CallFile).d["json"] = PyList(<<>>)
    /\ ret = Return(PyList(<<>>))

\* C8: when the document of the call stores last-modified T and
\* send_zkb_request_http returns a 304, the call returns the stored payload,
\* every cache file is as it was, and last_modified is T parsed.
C8_NotModified ==
    (pc = "done" /\ sent = Returned /\ res.status_code = 304 /\ CallFile \in DOMAIN files0
        /\ HasKey(Doc(files0, CallFile).d["headers"], "last-modified"))
    => /\ ret = Return(Doc(files0, CallFile).d["json"])
       /\ files = files0
       /\ last_modified =
            PyDate(parsedate(Doc(files0, CallFile).d["headers"].d["last-modified"].s))
       /\ ~is_last_data_updated

C8_Witness ==
    /\ pc = "done"
    /\ sent = Returned
    /\ res = Response(304, Hdr2, None)
    /\ logger
    /\ "If-Modified-Since" \in DOMAIN headers
    /\ last_modified = PyDate(1)
    /\ ret = Return(PyList(<<PyInt(7)>>))

\* C9: when the call that wrote a file last was an online 2xx fetch that
\* returned P, an offline call for the file returns P.
C9_OfflineReturnsFetched ==
    (pc = "done" /\ offline_mode /\ CallFile \in DOMAIN written
        /\ written[CallFile].kind = "return")
    => ret = written[CallFile]

C9_Witness ==
    /\ pc = "done"
    /\ offline_mode
    /\ CallFile \in DOMAIN written
    /\ written[CallFile] = Return(PyList(<<PyInt(7)>>))
    /\ ret = Return(PyList(<<PyInt(7)>>))

\* C10: every cache file holds a document with exactly one of a payload and
\* a sticky error.
C10_PayloadXorError ==
    \A f \in DOMAIN files :
        (Doc(files, f).d["json"] # None) # IsSticky(Doc(files, f))

\* every round trip of the call so far ended with a response of status code
AllStatus(code) ==
    /\ trace # <<>>
    /\ \A i \in 1..Len(trace) : trace[i].kind = "response" /\ trace[i].status_code = code
\* every round trip of the call so far failed with a ConnectionError
AllConnectionError ==
    /\ trace # <<>>
    /\ \A i \in 1..Len(trace) : trace[i] = ConnectionError
\* the retries of the call so far: the round trips after which
\* send_zkb_request_http made another request
Retries == IF pc = "request" THEN Len(trace) ELSE Len(trace) - 1

\* C11: in a call whose round trips are all answered with 503,
\* send_zkb_request_http retries at most 5 times, has slept 2, 4, ... , 2n
\* before its n retries, and ends only with the 6th 503, by raising
\* HTTPError(503).
C11_Bounded503Retry ==
    (pc # "idle" /\ AllStatus(503))
    => /\ Retries <= attempts_to_reconnect
       /\ sleeps = [i \in 1..Retries |-> 2 * i]
       /\ pc = "done" =>
            (Len(trace) = attempts_to_reconnect + 1 /\ sent = Raised(HTTPError(503, "origin")))

\* C12: in a call whose round trips all fail with a ConnectionError,
\* send_zkb_request_http retries at most 5 times, has slept 1 before each
\* retry, and ends with the 6th failure, by raising the ConnectionError, which
\* get_zkb_data raises to its caller; with a body and without.
C12_ConnectionRetryBounded ==
    (pc # "idle" /\ AllConnectionError)
    => /\ Retries <= attempts_to_reconnect
       /\ sleeps = [i \in 1..Retries |-> 1]
       /\ pc = "done" =>
            /\ Len(trace) = attempts_to_reconnect + 1
            /\ sent = Raised(Error("ConnectionError"))
            /\ ret = Raise(Error("ConnectionError"))

\* the call returned a payload: from the cache (trust-cache branch, offline
\* branch with a stored document) or after send_zkb_request_http returned a
\* 304 or a 2xx response
PayloadReturned ==
    /\ pc = "done"
    /\ ret.kind = "return"
    /\ IF transport_calls = 0 THEN CallFile \in DOMAIN files ELSE sent = Returned
    /\ CallFile \in DOMAIN files

\* C13: after a call that returned a payload, last_modified is the stored
\* last-modified of the document of the call, parsed (None when the document
\* stores none).
C13_LastModifiedOfReturned ==
    PayloadReturned => last_modified = cached_last_modified(Doc(files, CallFile), None)

\* a raw path without its trailing slash
StripSlash(u) == IF Len(u) > 0 /\ u[Len(u)] = "/" THEN SubSeq(u, 1, Len(u) - 1) ELSE u
\* the document a 2xx response r is stored as
FetchedDoc(r) == PyDict(("headers" :> get_cached_headers(r)) @@ ("json" :> r.body))

\* C14: a raw path that differs from the path of the call by a trailing slash
\* only, or that has the same normalized form, has the same cache file: the
\* document the call loaded is the one stored for that path, and the document
\* the call writes is the one a later load for that path takes.
C14_KeyNormalization ==
    pc # "idle"
    => \A u2 \in Urls :
        (StripSlash(u2) = StripSlash(url) \/ get_f_name(u2) = get_f_name(url))
        => /\ get_f_name(u2) = get_f_name(url)
           /\ cached_data = take_cache_from_file(files0, u2)
           /\ (pc = "done" /\ is_last_data_updated)
                => take_cache_from_file(files, u2) = FetchedDoc(res)

C14_Witness ==
    /\ pc = "done"
    /\ url = <<"k", "/", "7", "/">>
    /\ is_last_data_updated
    /\ CallFile \notin DOMAIN files0
    /\ take_cache_from_file(files, <<"k", "/", "7">>).d["json"] = PyList(<<PyInt(7)>>)

\* the client's last_modified after the round trips t of a call, when the
\* client has a logger (enabled) or has none
RECURSIVE last_modified_after(_, _)
last_modified_after(t, enabled) ==
    IF t = <<>> THEN None
    ELSE LET old == last_modified_after(SubSeq(t, 1, Len(t) - 1), enabled)
             e == t[Len(t)]
         IN  IF e.kind = "response" THEN logged_last_modified(e, enabled, old) ELSE old

\* C15: during and after send_zkb_request_http the client's last_modified is
\* the one the same round trips leave in a client with the other logger
\* setting, and after a response with a Last-Modified header it is that
\* header's value, parsed.  (The response returned and the error raised are
\* computed from the status and the counters alone.)
C15_LoggingIsSideChannel ==
    (pc # "idle" /\ transport_calls = 1)
    => /\ client_last_modified = last_modified_after(trace, ~logger)
       /\ (ev.kind = "response" /\ "Last-Modified" \in DOMAIN ev.headers)
            => client_last_modified = PyDate(parsedate(ev.headers["Last-Modified"]))

\* C16: when the document of the call holds a sticky error and
\* send_zkb_request_http returns a 2xx response with the JSON payload P, the
\* file of the call holds afterwards the document of that response (P and
\* the response's headers, no sticky error), the call returns P, and the
\* offline branch, run on the cache as it is now, returns P.
C16_StickyRecovery ==
    (pc = "done" /\ ~offline_mode /\ CallFile \in DOMAIN files0
        /\ IsSticky(Doc(files0, CallFile))
        /\ sent = Returned /\ res.status_code \in 200..299 /\ res.body # NotJson)
    => /\ Doc(files, CallFile) = FetchedDoc(res)
       /\ ~IsSticky(Doc(files, CallFile))
       /\ ret = Return(res.body)
       /\ is_last_data_updated
       /\ offline_result(take_cache_from_file(files, url), url) = Return(res.body)

C16_Witness ==
    /\ pc = "done"
    /\ ~offline_mode
    /\ CallFile \in DOMAIN files0
    /\ files0[CallFile] = json_dumps(StickyDoc(404))
    /\ res = Response(200, Hdr1, PyList(<<PyInt(7)>>))
    /\ ret = Return(PyList(<<PyInt(7)>>))
    /\ Doc(files, CallFile).d["json"] = PyList(<<PyInt(7)>>)

\* the retries of the call so far that a response with a status of codes
\* triggered
RetriesBy(codes) ==
    Cardinality({i \in 1..Retries :
                    trace[i].kind = "response" /\ trace[i].status_code \in codes})

\* C20: within one send_zkb_request_http call, whatever the order of the
\* responses and the connection failures, at most 5 retries are triggered by
\* 502/503/504 responses and at most 5 by 520 responses.
C20_PerCallRetryBound ==
    pc # "idle"
    => /\ RetriesBy({502, 503, 504}) <= attempts_to_reconnect
       /\ RetriesBy({520}) <= attempts_to_reconnect

\* the round trip of this step ended with a response of a status of codes
Answered(codes) ==
    /\ pc = "request"
    /\ trace' = Append(trace, ev')
    /\ ev'.kind = "response"
    /\ ev'.status_code \in codes
\* send_zkb_request_http goes on to another request, with the counters p and
\* t and after the sleeps s
RetriesWith(p, t, s) ==
    /\ pc' = "request"
    /\ proxy_error_times' = p
    /\ throttle_error_times' = t
    /\ sleeps' = sleeps \o s

\* C17: a 502 or 504 response is retried at once and a 503 response after a
\* sleep while proxy_error_times, which they share, is below 5; a 520
\* response is retried after a sleep of 5 while throttle_error_times is below
\* 5; each retry adds one to its counter and leaves the other counter alone,
\* so a counter at 5 does not stop retries on the other; a response whose
\* counter is at 5 ends send_zkb_request_http with HTTPError of its status.
C17_TransientCounters ==
    [][/\ (Answered({502, 504}) /\ proxy_error_times < attempts_to_reconnect)
            => RetriesWith(proxy_error_times + 1, throttle_error_times, <<>>)
       /\ (Answered({503}) /\ proxy_error_times < attempts_to_reconnect)
            => RetriesWith(proxy_error_times + 1, throttle_error_times,
                           <<2 * (proxy_error_times + 1)>>)
       /\ (Answered({520}) /\ throttle_error_times < attempts_to_reconnect)
            => RetriesWith(proxy_error_times, throttle_error_times + 1, <<5>>)
       /\ (Answered({502, 503, 504}) /\ proxy_error_times >= attempts_to_reconnect)
            => (pc' = "done" /\ sent' = Raised(HTTPError(ev'.status_code, "origin")))
       /\ (Answered({520}) /\ throttle_error_times >= attempts_to_reconnect)
            => (pc' = "done" /\ sent' = Raised(HTTPError(520, "origin")))
       /\ proxy_error_times' <= attempts_to_reconnect
       /\ throttle_error_times' <= attempts_to_reconnect
      ]_vars

\* C18: a response with status 2xx, 304, 403 or 404 is the last round trip of
\* the call: send_zkb_request_http has ended with it, by returning that
\* response (2xx, 304) or by raising HTTPError of that status (403, 404).
C18_TerminalStatuses ==
    pc # "idle"
    => \A i \in 1..Len(trace) :
        (trace[i].kind = "response"
            /\ trace[i].status_code \in (200..299) \cup {304, 403, 404})
        => /\ i = Len(trace)
           /\ pc = "done"
           /\ trace[i].status_code \in (200..299) \cup {304}
                => (sent = Returned /\ res = trace[i])
           /\ trace[i].status_code \in {403, 404}
                => sent = Raised(HTTPError(trace[i].status_code, "origin"))

\* the last-modified stored in the document of the call on entry, or None
StoredLastModified ==
    IF CallFile \in DOMAIN files0
    THEN DictGet(Doc(files0, CallFile).d["headers"], "last-modified")
    ELSE None

\* C19: the requests of an online call carry If-Modified-Since exactly when
\* the call has no body and the document of the call stores a last-modified;
\* the header's value is the stored value; a call with a body never carries
\* the header.
C19_ConditionalRequest ==
    (pc # "idle" /\ transport_calls = 1)
    => /\ ("If-Modified-Since" \in DOMAIN headers)
            <=> (body = None /\ StoredLastModified # None)
       /\ "If-Modified-Since" \in DOMAIN headers
            => PyStr(headers["If-Modified-Since"]) = StoredLastModified
       /\ body # None => "If-Modified-Since" \notin DOMAIN headers

C19_Witness ==
    /\ pc = "request"
    /\ body = None
    /\ StoredLastModified = PyStr("Tue, 02 Jan")
    /\ "If-Modified-Since" \in DOMAIN headers
    /\ headers["If-Modified-Since"] = "Tue, 02 Jan"

\* C21: no cache file holds a sticky error together with a last-modified; an
\* online call for a file that is absent or holds a sticky error sends its
\* requests without If-Modified-Since; and when a call handles a 304 that
\* answered a conditional request, the document of the call exists and holds
\* a payload and no sticky error.
C21_NotModifiedHasPayload ==
    /\ \A f \in DOMAIN files :
            IsSticky(Doc(files, f)) => ~HasKey(Doc(files, f).d["headers"], "last-modified")
    /\ (pc # "idle" /\ transport_calls = 1
            /\ (CallFile \notin DOMAIN files0 \/ IsSticky(Doc(files0, CallFile))))
        => "If-Modified-Since" \notin DOMAIN headers
    /\ (pc = "done" /\ sent = Returned /\ res.status_code = 304
            /\ "If-Modified-Since" \in DOMAIN headers)
        => /\ CallFile \in DOMAIN files0
           /\ cached_data = Doc(files0, CallFile)
           /\ ~IsSticky(cached_data)
           /\ cached_data.d["json"] # None

\* what get_zkb_data ends with after send_zkb_request_http ended as sent
\* (with the response res, when it returned), in a call on the cache directory f
TransportResult(f) ==
    IF sent = Returned
    THEN on_response(res, f, url, cached_data, client_last_modified).ret
    ELSE on_error(sent.err, f, url).ret

\* C22: an online call with the trust flag for a file whose document holds a
\* sticky error does not end in the trust-cache branch: it invokes
\* send_zkb_request_http, and it ends only when send_zkb_request_http has
\* ended, with the result that outcome gives.
C22_TrustNeverReplaysSticky ==
    (pc # "idle" /\ ~offline_mode /\ fully_trust_cache /\ CallFile \in DOMAIN files0
        /\ IsSticky(Doc(files0, CallFile)))
    => /\ transport_calls = 1
       /\ pc = "done" =>
            /\ trace # <<>>
            /\ sent # NotSent
            /\ ret = TransportResult(files0)

C22_Witness ==
    /\ pc = "done"
    /\ ~offline_mode
    /\ fully_trust_cache
    /\ CallFile \in DOMAIN files0
    /\ files0[CallFile] = json_dumps(StickyDoc(403))
    /\ sent = Returned
    /\ ret = Return(PyList(<<>>))
====
